---- MODULE Spec2Model ----
(***************************************************************************)
(* SnapImg: the batch runner of src/App.tsx (file list, progress timers,   *)
(* the sequential compress loop, the summary figures) and the single-image *)
(* compression operation it calls.  The compression operation runs in the  *)
(* backend (serve/app/core/compressor.py), whose code is not part of the   *)
(* sources at hand; it is modelled from sections 4.1-4.4 of the            *)
(* specification.                                                          *)
(***************************************************************************)
EXTENDS Integers, Sequences, FiniteSets, TLC

VARIABLES
    files,              \* App: useState<FileItem[]>
    isCompressing,      \* App: useState(false)
    outputFormat,       \* App: useState<OutputFormat>('original')
    progressIntervals,  \* App: useRef(Map<id, timer>), the keys of the map
    pc,                 \* handleFilesSelected: "idle" | "awaiting"
    i,                  \* handleFilesSelected: loop index (1-based), 0 when idle
    newFiles,           \* handleFilesSelected: the closure's newFiles
    fmt,                \* handleFilesSelected: the closure's outputFormat
    mounted,            \* App: mounted, FALSE once the cleanup of line 83 ran
    lastDrop,           \* UploadZone: the last selection dropped and what of it
                        \* reached onFilesSelected
    libs,               \* backend: which optional libraries the process imported
    urls,               \* browser: the object URLs created and not revoked
    lastDownload,       \* browser: the download last started from the list on
                        \* display, <<>> when there was none
    sliderPosition,     \* ImageCompare: useState(50)
    imageSize,          \* ImageCompare: useState({ width: 0, height: 0 })
    imageOffset,        \* ImageCompare: useState({ left: 0, top: 0 })
    isDragging,         \* ImageCompare: useRef(false)
    mouseHeld,          \* pointer: a mouse button is down
    lastEvent,          \* pointer: the last event ImageCompare handled
    req,                \* compress: the request under study (pure-function spec)
    out                 \* compress: its trace and result, <<>> before the call

\* the state of App and of what it calls
appVars == <<files, isCompressing, outputFormat, progressIntervals, pc, i,
             newFiles, fmt, mounted, lastDrop, libs, urls, lastDownload,
             req, out>>

compareVars == <<sliderPosition, imageSize, imageOffset, isDragging,
                 mouseHeld, lastEvent>>

\* what no handler of the batch runner touches
otherVars == <<compareVars, req, out>>

vars == <<files, isCompressing, outputFormat, progressIntervals, pc, i,
          newFiles, fmt, mounted, lastDrop, libs, urls, lastDownload,
          compareVars, req, out>>

uiVars == <<files, isCompressing, outputFormat, progressIntervals, pc, i,
            newFiles, fmt, mounted, lastDrop, libs, urls, lastDownload,
            compareVars>>

----------------------------------------------------------------------------
(* Bounds                                                                  *)

MaxBatchLen == 2     \* longest selection handed to the upload zone
MaxSize == 2         \* largest byte count of an input or of a library output
MaxDownloadLen == 3  \* longest selection of the download study
MaxUrls == 4         \* most object URLs live at once where the store is observed
MaxWidth == 4        \* largest displayed width of the compared image
MaxLeft == 1         \* largest left offset of the compared image

(* Program constants                                                       *)

MAX_FILES == 20

----------------------------------------------------------------------------
(* Small helpers                                                           *)

Min(a, b) == IF a < b THEN a ELSE b
Max(a, b) == IF a > b THEN a ELSE b

RECURSIVE SumSeq(_)
SumSeq(s) == IF s = <<>> THEN 0 ELSE Head(s) + SumSeq(Tail(s))

\* JavaScript number division: a NaN or an infinity where the divisor is 0,
\* the exact quotient otherwise, kept as a fraction <<numerator, denominator>>.
NaN == <<0, 0>>
JsDiv(a, b) == IF b = 0 THEN NaN ELSE <<a, b>>

\* round(n / d) for d > 0, halves rounded up
RoundDiv(n, d) == (2 * n + d) \div (2 * d)

----------------------------------------------------------------------------
(* Formats                                                                 *)

\* FORMAT_OPTIONS: what the format selector can send
FORMAT_OPTIONS == {"original", "webp", "png", "jpeg"}

\* the concrete formats of the three encoder families
PALETTE_RASTER == {"png"}
LOSSY_PHOTO == {"jpeg"}
MODERN == {"webp", "avif"}
ConcreteFormats == PALETTE_RASTER \cup LOSSY_PHOTO \cup MODERN

\* what a caller of the API can put in the format field
RequestFormats == {"original"} \cup ConcreteFormats \cup {"gif"}

\* ACCEPTED_TYPES of the upload zone
ACCEPTED_TYPES == {"image/png", "image/jpeg", "image/webp"}

----------------------------------------------------------------------------
(* Input bytes.  The content of an upload is abstracted by what the        *)
(* operations read of it: its length, the signature its first bytes carry, *)
(* whether the image data behind the header is whole, whether the image    *)
(* has an alpha channel, and the lengths of the byte streams the encoder,  *)
(* the fallback quantizer and the lossless optimizer produce from it.      *)

ValidBytes ==
    [size : 1..MaxSize, sig : ConcreteFormats, body : {"valid", "truncated"},
     alpha : BOOLEAN, enc : 1..MaxSize, fb : 1..MaxSize, opt : 1..MaxSize]

\* bytes that carry no accepted signature (the empty upload among them)
GarbageBytes ==
    [size : 0..MaxSize, sig : {"none"}, body : {"truncated"},
     alpha : {FALSE}, enc : {1}, fb : {1}, opt : {1}]

Bytes == ValidBytes \cup GarbageBytes

\* optional libraries: the preferred quantizer and the lossless optimizer
Avail == {"ok", "unavailable", "raises"}
Envs == [quant : Avail, optimizer : Avail]

EncodedBytes(src, n) == [src |-> src, size |-> n]

----------------------------------------------------------------------------
(* CompressionOrchestrator and its collaborators                           *)

\* FormatDetector.detect: content-based, "none" stands for UnsupportedFormatError
Detect(b) == IF b.sig \in ConcreteFormats THEN b.sig ELSE "none"

\* step 2: ORIGINAL re-derives the target from the source's format
ResolveTarget(detected, f) == IF f = "original" THEN detected ELSE f

\* compression_ratio_percent, 0 where the original is empty
Ratio(c, o) == IF o = 0 THEN 0 ELSE RoundDiv(100 * (o - c), o)

\* QuantizationBackend: try the preferred backend, fall back on any failure
Quantize(b, env) ==
    IF env.quant = "ok"
    THEN [backend |-> "primary", bytes |-> EncodedBytes("quantizer", b.enc)]
    ELSE [backend |-> "fallback", bytes |-> EncodedBytes("fallback", b.fb)]

\* FormatEncoder of the lossy and of the modern family
Encode(b) == EncodedBytes("encoder", b.enc)

\* what the optimizer library hands back for x: <<>> when it is missing or raises
OptimizerOutput(b, env) ==
    IF env.optimizer = "ok" THEN <<EncodedBytes("optimizer", b.opt)>> ELSE <<>>

\* an optimizer step that keeps whatever the library returns
Optimize_unchecked(x, y) ==
    IF y # <<>> THEN y[1] ELSE x

\* LosslessPostOptimizer.optimize: never larger than its input
Optimize(x, y) ==
    IF y # <<>> /\ y[1].size < x.size THEN y[1] ELSE x

FailResult(name, b, kind) ==
    [filename |-> name, original_size |-> b.size, compressed_size |-> 0,
     compression_ratio |-> 0, format |-> "", data |-> <<>>,
     success |-> FALSE, error |-> kind]

OkResult(name, b, target, kept) ==
    [filename |-> name, original_size |-> b.size,
     compressed_size |-> kept.size,
     compression_ratio |-> Ratio(kept.size, b.size),
     format |-> target, data |-> <<target, kept>>,
     success |-> TRUE, error |-> ""]

\* the trace of a request that failed before any encoder ran
FailTrace(target, r) ==
    [quantizer |-> "none", x |-> <<>>, y |-> <<>>, optimized |-> FALSE,
     flattened |-> FALSE, target |-> target, result |-> r]

\* a palette encoder that reports a missing quantizer as a failure
PaletteTrace_noFallback(name, b, target, env) ==
    IF env.quant = "ok"
    THEN [quantizer |-> "primary", x |-> <<EncodedBytes("quantizer", b.enc)>>,
          y |-> <<>>, optimized |-> FALSE, flattened |-> FALSE,
          target |-> target,
          result |-> OkResult(name, b, target, EncodedBytes("quantizer", b.enc))]
    ELSE FailTrace(target, FailResult(name, b, "OptionalDependencyUnavailable"))

\* a palette encoder that leaves a source that is a palette raster already
\* to the plain encoder
PaletteTrace_skipPalette(name, b, target, env) ==
    IF b.sig \in PALETTE_RASTER
    THEN [quantizer |-> "none", x |-> <<Encode(b)>>, y |-> <<>>,
          optimized |-> FALSE, flattened |-> FALSE, target |-> target,
          result |-> OkResult(name, b, target, Encode(b))]
    ELSE [quantizer |-> Quantize(b, env).backend,
          x |-> <<Quantize(b, env).bytes>>, y |-> <<>>,
          optimized |-> FALSE, flattened |-> FALSE, target |-> target,
          result |-> OkResult(name, b, target, Quantize(b, env).bytes)]

\* step 4: the palette raster encoder, always behind a quantizer
PaletteTrace(name, b, target, env) ==
    LET q == Quantize(b, env)
    IN  [quantizer |-> q.backend, x |-> <<q.bytes>>, y |-> <<>>,
         optimized |-> FALSE, flattened |-> FALSE, target |-> target,
         result |-> OkResult(name, b, target, q.bytes)]

\* a lossy encoder that fails with its optimizer
LossyTrace_fatal(name, b, target, env) ==
    IF env.optimizer = "raises"
    THEN FailTrace(target, FailResult(name, b, "EncodeError"))
    ELSE [quantizer |-> "none", x |-> <<Encode(b)>>,
          y |-> OptimizerOutput(b, env), optimized |-> TRUE,
          flattened |-> b.alpha, target |-> target,
          result |-> OkResult(name, b, target,
                              Optimize(Encode(b), OptimizerOutput(b, env)))]

\* a lossy encoder that rejects a source with an alpha channel
LossyTrace_alphaFails(name, b, target, env) ==
    IF b.alpha
    THEN FailTrace(target, FailResult(name, b, "UnsupportedTargetFormatError"))
    ELSE [quantizer |-> "none", x |-> <<Encode(b)>>,
          y |-> OptimizerOutput(b, env), optimized |-> TRUE,
          flattened |-> FALSE, target |-> target,
          result |-> OkResult(name, b, target,
                              Optimize(Encode(b), OptimizerOutput(b, env)))]

\* step 5: the lossy encoder, then the optional optimizer; the format has
\* no alpha channel, so a source that has one is flattened onto the default
\* background first
LossyTrace(name, b, target, env) ==
    LET x == Encode(b)
        y == OptimizerOutput(b, env)
    IN  [quantizer |-> "none", x |-> <<x>>, y |-> y,
         optimized |-> TRUE, flattened |-> b.alpha, target |-> target,
         result |-> OkResult(name, b, target, Optimize(x, y))]

\* step 6: the modern encoder, nothing before or after it
ModernTrace(name, b, target, env) ==
    [quantizer |-> "none", x |-> <<Encode(b)>>, y |-> <<>>,
     optimized |-> FALSE, flattened |-> FALSE, target |-> target,
     result |-> OkResult(name, b, target, Encode(b))]

\* the format a file name's extension announces
ExtensionFormat(name) ==
    IF name \in {"upload.jpg", "c.jpg"} THEN "jpeg"
    ELSE IF name \in {"d.webp"} THEN "webp"
    ELSE "png"

\* a compress that trusts the file name for the source format
CompressTrace_byExtension(name, b, f, env) ==
    LET detected == ExtensionFormat(name)
        target == ResolveTarget(detected, f)
    IN  IF target \notin ConcreteFormats
        THEN FailTrace(target, FailResult(name, b, "UnsupportedTargetFormatError"))
        ELSE IF b.body # "valid"
        THEN FailTrace(target, FailResult(name, b, "EncodeError"))
        ELSE IF target \in PALETTE_RASTER THEN PaletteTrace(name, b, target, env)
        ELSE IF target \in LOSSY_PHOTO THEN LossyTrace(name, b, target, env)
        ELSE ModernTrace(name, b, target, env)

\* compress(request), with the steps it took
CompressTrace(name, b, f, env) ==
    LET detected == Detect(b)
        target == ResolveTarget(detected, f)
    IN  IF detected = "none"
        THEN FailTrace("", FailResult(name, b, "DecodeError"))
        ELSE IF target \notin ConcreteFormats
        THEN FailTrace(target, FailResult(name, b, "UnsupportedTargetFormatError"))
        ELSE IF b.body # "valid"
        THEN FailTrace(target, FailResult(name, b, "EncodeError"))
        ELSE IF target \in PALETTE_RASTER THEN PaletteTrace(name, b, target, env)
        ELSE IF target \in LOSSY_PHOTO THEN LossyTrace(name, b, target, env)
        ELSE ModernTrace(name, b, target, env)

Compress(name, b, f, env) == CompressTrace(name, b, f, env).result

----------------------------------------------------------------------------
(* The files a user can select.  A File is a name, a MIME type and bytes.  *)

File(name, type, b) == [name |-> name, type |-> type, bytes |-> b]

SampleFiles ==
    { \* a valid PNG that shrinks
      File("a.png", "image/png",
           [size |-> 2, sig |-> "png", body |-> "valid", alpha |-> TRUE,
            enc |-> 1, fb |-> 2, opt |-> 1]),
      \* a tiny JPEG that every encoder makes larger
      File("c.jpg", "image/jpeg",
           [size |-> 1, sig |-> "jpeg", body |-> "valid", alpha |-> FALSE,
            enc |-> 2, fb |-> 2, opt |-> 2]),
      \* a WebP cut off behind its header
      File("d.webp", "image/webp",
           [size |-> 2, sig |-> "webp", body |-> "truncated", alpha |-> FALSE,
            enc |-> 1, fb |-> 1, opt |-> 1]),
      \* an empty file named .png
      File("e.png", "image/png",
           [size |-> 0, sig |-> "none", body |-> "truncated", alpha |-> FALSE,
            enc |-> 1, fb |-> 1, opt |-> 1]) }

\* every selection the user can drop on the upload zone
Selections == UNION {[1..n -> SampleFiles] : n \in 1..MaxBatchLen}

\* the files of the download study: two images that share a base name and
\* a file that fails
DownloadSamples ==
    { File("a.png", "image/png",
           [size |-> 2, sig |-> "png", body |-> "valid", alpha |-> TRUE,
            enc |-> 1, fb |-> 2, opt |-> 1]),
      File("a.jpg", "image/jpeg",
           [size |-> 2, sig |-> "jpeg", body |-> "valid", alpha |-> FALSE,
            enc |-> 1, fb |-> 1, opt |-> 1]),
      File("e.png", "image/png",
           [size |-> 0, sig |-> "none", body |-> "truncated", alpha |-> FALSE,
            enc |-> 1, fb |-> 1, opt |-> 1]) }

\* the selections of distinct files among them
NamedSelections ==
    {sel \in UNION {[1..n -> DownloadSamples] : n \in 1..MaxDownloadLen} :
        \A j, k \in 1..Len(sel) : j # k => sel[j] # sel[k]}

\* one file of each format README_EN.md lists as input
DocumentedFormats == {"png", "jpeg", "webp", "avif"}

MimeType(f) ==
    CASE f = "png" -> "image/png"
      [] f = "jpeg" -> "image/jpeg"
      [] f = "webp" -> "image/webp"
      [] f = "avif" -> "image/avif"

FormatFile(f) ==
    File("photo", MimeType(f),
         [size |-> 2, sig |-> f, body |-> "valid", alpha |-> FALSE,
          enc |-> 1, fb |-> 1, opt |-> 1])

\* the selections around the limit of the upload zone: one file of each
\* documented format, MAX_FILES - 1 to MAX_FILES + 1 files the zone accepts,
\* and MAX_FILES files it accepts with one it does not
LongSelections ==
    {<<FormatFile(f)>> : f \in DocumentedFormats}
        \cup {[k \in 1..n |-> FormatFile("png")] :
                  n \in (MAX_FILES - 1)..(MAX_FILES + 1)}
        \cup {[k \in 1..(MAX_FILES + 1) |->
                  IF k = 1 THEN FormatFile("avif") ELSE FormatFile("png")]}

\* what compressSingleImage can throw: an Error with a message, or another value
Thrown == {[isError |-> TRUE, message |-> "Failed to fetch"],
           [isError |-> FALSE, message |-> ""]}

----------------------------------------------------------------------------
(* App.tsx                                                                 *)

\* FileItem as handleFilesSelected creates it
NewItem(id, file) ==
    [id |-> id, file |-> file, status |-> "pending", progress |-> 0,
     result |-> <<>>]

\* `${file.name}-${Date.now()}-${Math.random()}`: the name and a stamp that
\* no live timer of the map carries
Stamps(ids) == {id[2] : id \in ids}
FreshId(file, k, ids) ==
    <<file.name, k + (IF Stamps(ids) = {} THEN 0
                      ELSE CHOOSE m \in Stamps(ids) : \A n \in Stamps(ids) : n <= m)>>

\* prev.map((f, idx) => idx === i ? g(f) : f), applied through the lambdas below

\* a loop that marks every item of the batch at once
SetCompressing_all(prev, k) ==
    [idx \in 1..Len(prev) |->
        IF idx >= k THEN [prev[idx] EXCEPT !.status = "compressing", !.progress = 0]
        ELSE prev[idx]]

\* lines 122-124: item k becomes 'compressing' with progress 0
SetCompressing(prev, k) ==
    [idx \in 1..Len(prev) |->
        IF idx = k THEN [prev[idx] EXCEPT !.status = "compressing", !.progress = 0]
        ELSE prev[idx]]

\* the result written to the head of the list
SetResult_first(prev, k, result) ==
    [idx \in 1..Len(prev) |->
        IF idx = 1
        THEN [prev[idx] EXCEPT
                !.status = IF result.success THEN "done" ELSE "error",
                !.progress = 100, !.result = <<result>>]
        ELSE prev[idx]]

\* a result that carries over the bytes written for the item before it
SetResult_carry(prev, k, result) ==
    [idx \in 1..Len(prev) |->
        IF idx = k
        THEN [prev[idx] EXCEPT
                !.status = IF result.success THEN "done" ELSE "error",
                !.progress = 100,
                !.result = <<[result EXCEPT !.compressed_size =
                                @ + (IF k > 1 /\ prev[k - 1].result # <<>>
                                     THEN prev[k - 1].result[1].compressed_size
                                     ELSE 0)]>>]
        ELSE prev[idx]]

\* lines 130-132: item k takes its result, 'done' or 'error', progress 100
SetResult(prev, k, result) ==
    [idx \in 1..Len(prev) |->
        IF idx = k
        THEN [prev[idx] EXCEPT
                !.status = IF result.success THEN "done" ELSE "error",
                !.progress = 100, !.result = <<result>>]
        ELSE prev[idx]]

\* a catch block that reports the file's length as the compressed size
CatchResult_sized(file, error) ==
    [filename |-> file.name, original_size |-> file.bytes.size,
     compressed_size |-> file.bytes.size, compression_ratio |-> 0, data |-> <<>>,
     success |-> FALSE,
     error |-> IF error.isError THEN error.message ELSE "compress failed",
     format |-> ""]

\* the result the catch block builds; "compress failed" stands for the fixed
\* message used when the thrown value is no Error
CatchResult(file, error) ==
    [filename |-> file.name, original_size |-> file.bytes.size,
     compressed_size |-> 0, compression_ratio |-> 0, data |-> <<>>,
     success |-> FALSE,
     error |-> IF error.isError THEN error.message ELSE "compress failed",
     format |-> ""]

\* a catch block that marks the item as done
SetCaught_done(prev, k, result) ==
    [idx \in 1..Len(prev) |->
        IF idx = k
        THEN [prev[idx] EXCEPT !.status = "done", !.progress = 100,
                               !.result = <<result>>]
        ELSE prev[idx]]

\* lines 135-140: item k takes the result built from the exception
SetCaught(prev, k, result) ==
    [idx \in 1..Len(prev) |->
        IF idx = k
        THEN [prev[idx] EXCEPT !.status = "error", !.progress = 100,
                               !.result = <<result>>]
        ELSE prev[idx]]

\* the interval callback of startProgress; progress is kept in whole
\* percent, the tenth of the distance to 90 rounded down
\* a timer callback that looks at the id only
ProgressStep_unguarded(prev, id) ==
    [idx \in 1..Len(prev) |->
        LET f == prev[idx]
        IN  IF f.id = id
            THEN [f EXCEPT !.progress =
                     Min(90, f.progress + Max(1, (90 - f.progress) \div 10))]
            ELSE f]

\* lines 90-96: the callback of the timer of item id
ProgressStep(prev, id) ==
    [idx \in 1..Len(prev) |->
        LET f == prev[idx]
        IN  IF f.id = id /\ f.status = "compressing" /\ f.progress < 90
            THEN [f EXCEPT !.progress =
                     Min(90, f.progress + Max(1, (90 - f.progress) \div 10))]
            ELSE f]

\* lines 88-99: a timer is started and kept in the map under id
startProgress(map, id) == map \cup {id}

\* a stopProgress that leaves the timer in the map
stopProgress_keep(map, id) == map

\* lines 101-107: the timer of id is cleared and leaves the map
stopProgress(map, id) == map \ {id}

----------------------------------------------------------------------------
(* lib/api.ts: compressSingleImage posts the file and the format to the    *)
(* API and resolves to the CompressionResult of the request                *)

compressSingleImage(file, f, env) == Compress(file.name, file.bytes, f, env)

----------------------------------------------------------------------------
(* UploadZone: what useDropzone hands to onDrop                            *)

MAX_FILE_SIZE == 10 * 1024 * 1024

\* an upload zone without maxFiles
DropAccepted_nocap(sel) ==
    LET ok(f) == f.type \in ACCEPTED_TYPES /\ f.bytes.size <= MAX_FILE_SIZE
    IN  SelectSeq(sel, ok)

\* accept, maxSize and maxFiles of useDropzone: a file of another type or
\* above the size is rejected, and so is everything when more than maxFiles
\* files pass
DropAccepted(sel) ==
    LET ok(f) == f.type \in ACCEPTED_TYPES /\ f.bytes.size <= MAX_FILE_SIZE
        accepted == SelectSeq(sel, ok)
    IN  IF Len(accepted) > MAX_FILES THEN <<>> ELSE accepted

----------------------------------------------------------------------------
(* Initial state                                                           *)

UIInit ==
    /\ files = <<>>
    /\ isCompressing = FALSE
    /\ outputFormat = "original"
    /\ progressIntervals = {}
    /\ pc = "idle"
    /\ i = 0
    /\ newFiles = <<>>
    /\ fmt = "original"
    /\ mounted = TRUE
    /\ lastDrop = [n |-> 0, taken |-> 0, types |-> {}]
    /\ lastDownload = <<>>
    /\ sliderPosition = 50
    /\ imageSize = [width |-> 0]
    /\ imageOffset = [left |-> 0]
    /\ isDragging = FALSE
    /\ mouseHeld = FALSE
    /\ lastEvent = "none"

\* the backend imports its optional libraries once, when the process starts
UIEnvs == {[quant |-> "ok", optimizer |-> "ok"],
           [quant |-> "unavailable", optimizer |-> "raises"]}

Init ==
    /\ UIInit
    /\ urls = [observed |-> FALSE, live |-> 0]
    /\ libs \in UIEnvs
    /\ req = <<>>
    /\ out = <<>>

\* the same start with the store of object URLs observed
InitUrls ==
    /\ UIInit
    /\ urls = [observed |-> TRUE, live |-> 0]
    /\ libs \in UIEnvs
    /\ req = <<>>
    /\ out = <<>>

----------------------------------------------------------------------------
(* handleFilesSelected.  JavaScript runs it without interruption up to the *)
(* await of compressSingleImage and again from the resumption of the await *)
(* to the next await or to its end.                                        *)

\* URL.createObjectURL, once for each new item (line 115): n more URLs live.
\* The store is counted where a specification observes it and left alone
\* where none of the properties studied reads it.
createObjectURL(store, n) ==
    IF store.observed THEN [store EXCEPT !.live = @ + n] ELSE store

\* URL.revokeObjectURL, once for each listed item (line 188)
revokeObjectURL(store, n) ==
    IF store.observed THEN [store EXCEPT !.live = @ - n] ELSE store

\* setFiles and setIsCompressing reach the state of a mounted component
\* only: React drops the update of a component that was unmounted
Rendered(current, next) == IF mounted THEN next ELSE current

\* a handler that calls compressSingleImage without the selected format
handleFilesSelected_noFormat(selectedFiles) ==
    LET created == [k \in 1..Len(selectedFiles) |->
                      NewItem(FreshId(selectedFiles[k], k, progressIntervals),
                              selectedFiles[k])]
    IN  /\ newFiles' = created
        /\ files' = SetCompressing(created, 1)
        /\ isCompressing' = TRUE
        /\ progressIntervals' = startProgress(progressIntervals, created[1].id)
        /\ i' = 1
        /\ pc' = "awaiting"
        /\ fmt' = "original"
        /\ urls' = createObjectURL(urls, Len(selectedFiles))
        /\ lastDownload' = <<>>
        /\ UNCHANGED <<outputFormat, otherVars, libs, mounted>>

\* lines 110-125: the new list, the flag, and the first iteration up to the call
handleFilesSelected(selectedFiles) ==
    LET created == [k \in 1..Len(selectedFiles) |->
                      NewItem(FreshId(selectedFiles[k], k, progressIntervals),
                              selectedFiles[k])]
    IN  /\ newFiles' = created
        /\ files' = SetCompressing(created, 1)
        /\ isCompressing' = TRUE
        /\ progressIntervals' = startProgress(progressIntervals, created[1].id)
        /\ i' = 1
        /\ pc' = "awaiting"
        /\ fmt' = outputFormat
        /\ urls' = createObjectURL(urls, Len(selectedFiles))
        /\ lastDownload' = <<>>
        /\ UNCHANGED <<outputFormat, otherVars, libs, mounted>>

\* a loop that publishes the results at its end only
NextIteration_unpublished(updated, map) ==
    IF i < Len(newFiles)
    THEN /\ files' = Rendered(files, SetCompressing(files, i + 1))
         /\ progressIntervals' = startProgress(map, newFiles[i + 1].id)
         /\ i' = i + 1
         /\ UNCHANGED <<isCompressing, pc, newFiles, fmt>>
    ELSE /\ files' = Rendered(files, updated)
         /\ progressIntervals' = map
         /\ isCompressing' = Rendered(isCompressing, FALSE)
         /\ pc' = "idle"
         /\ i' = 0
         /\ newFiles' = <<>>
         /\ UNCHANGED fmt

\* a loop that ends at the first failed item
NextIteration_abort(updated, map) ==
    IF i < Len(newFiles) /\ updated[i].status # "error"
    THEN /\ files' = Rendered(files, SetCompressing(updated, i + 1))
         /\ progressIntervals' = startProgress(map, newFiles[i + 1].id)
         /\ i' = i + 1
         /\ UNCHANGED <<isCompressing, pc, newFiles, fmt>>
    ELSE /\ files' = Rendered(files, updated)
         /\ progressIntervals' = map
         /\ isCompressing' = Rendered(isCompressing, FALSE)
         /\ pc' = "idle"
         /\ i' = 0
         /\ newFiles' = <<>>
         /\ UNCHANGED fmt

\* the loop after the try statement: the next iteration up to its call, or
\* the end of the loop and setIsCompressing(false)
NextIteration(updated, map) ==
    IF i < Len(newFiles)
    THEN /\ files' = Rendered(files, SetCompressing(updated, i + 1))
         /\ progressIntervals' = startProgress(map, newFiles[i + 1].id)
         /\ i' = i + 1
         /\ UNCHANGED <<isCompressing, pc, newFiles, fmt>>
    ELSE /\ files' = Rendered(files, updated)
         /\ progressIntervals' = map
         /\ isCompressing' = Rendered(isCompressing, FALSE)
         /\ pc' = "idle"
         /\ i' = 0
         /\ newFiles' = <<>>
         /\ UNCHANGED fmt

\* an upload zone that stays enabled while a batch runs
Drop_whileCompressing(sel) ==
    /\ mounted
    /\ urls.observed => urls.live + Len(DropAccepted(sel)) <= MaxUrls
    /\ lastDrop' = [n |-> Len(sel), taken |-> Len(DropAccepted(sel)),
                    types |-> {sel[k].type : k \in 1..Len(sel)}]
    /\ IF Len(DropAccepted(sel)) > 0
       THEN handleFilesSelected(DropAccepted(sel))
       ELSE UNCHANGED <<files, isCompressing, outputFormat, progressIntervals,
                        pc, i, newFiles, fmt, urls, lastDownload, otherVars,
                        libs, mounted>>

\* the upload zone, disabled while compressing, filters the selection and
\* calls onDrop, which calls handleFilesSelected when a file was accepted
Drop(sel) ==
    /\ mounted
    /\ ~isCompressing
    /\ urls.observed => urls.live + Len(DropAccepted(sel)) <= MaxUrls
    /\ lastDrop' = [n |-> Len(sel), taken |-> Len(DropAccepted(sel)),
                    types |-> {sel[k].type : k \in 1..Len(sel)}]
    /\ IF Len(DropAccepted(sel)) > 0
       THEN handleFilesSelected(DropAccepted(sel))
       ELSE UNCHANGED <<files, isCompressing, outputFormat, progressIntervals,
                        pc, i, newFiles, fmt, urls, lastDownload, otherVars, libs, mounted>>

\* a drop of a few files the upload zone accepts
OnDrop == \E sel \in Selections : Drop(sel)

\* the await resolves: lines 128-132, then the loop goes on
CallReturns ==
    /\ pc = "awaiting"
    /\ LET currentFile == newFiles[i]
           result == compressSingleImage(currentFile.file, fmt, libs)
       IN  NextIteration(SetResult(files, i, result),
                         stopProgress(progressIntervals, currentFile.id))
    /\ UNCHANGED <<outputFormat, urls, lastDownload, otherVars, libs, mounted, lastDrop>>

\* the await rejects and nothing catches it: the function ends there
CallThrows_uncaught ==
    /\ pc = "awaiting"
    /\ pc' = "idle"
    /\ i' = 0
    /\ newFiles' = <<>>
    /\ UNCHANGED <<files, isCompressing, outputFormat, progressIntervals, fmt,
                   urls, lastDownload, otherVars, libs, mounted, lastDrop>>

\* the await rejects: lines 133-141, then the loop goes on
CallThrows ==
    /\ pc = "awaiting"
    /\ \E error \in Thrown :
        LET currentFile == newFiles[i]
        IN  NextIteration(
                SetCaught(files, i, CatchResult(currentFile.file, error)),
                stopProgress(progressIntervals, currentFile.id))
    /\ UNCHANGED <<outputFormat, urls, lastDownload, otherVars, libs, mounted, lastDrop>>

\* a timer of the map fires
Tick ==
    \E id \in progressIntervals :
        /\ mounted
        /\ files' = ProgressStep(files, id)
        /\ UNCHANGED <<isCompressing, outputFormat, progressIntervals, pc, i,
                       newFiles, fmt, urls, lastDownload, otherVars, libs, mounted, lastDrop>>

\* a button of the format selector, disabled while compressing
SetOutputFormat ==
    \E v \in FORMAT_OPTIONS :
        /\ mounted
        /\ ~isCompressing
        /\ outputFormat' = v
        /\ UNCHANGED <<files, isCompressing, progressIntervals, pc, i,
                       newFiles, fmt, urls, lastDownload, otherVars, libs, mounted, lastDrop>>

\* the clear button, shown with a list and disabled while compressing
handleClear ==
    /\ mounted
    /\ Len(files) > 0
    /\ ~isCompressing
    /\ progressIntervals' = {}
    /\ urls' = revokeObjectURL(urls, Len(files))
    /\ files' = <<>>
    /\ lastDownload' = <<>>
    /\ UNCHANGED <<isCompressing, outputFormat, pc, i, newFiles, fmt, otherVars,
                   libs, mounted, lastDrop>>

Next ==
    \/ OnDrop
    \/ CallReturns
    \/ CallThrows
    \/ Tick
    \/ SetOutputFormat
    \/ handleClear

Spec == Init /\ [][Next]_vars

\* a drop of a selection around the limit of the upload zone
OnDropLong == \E sel \in LongSelections : Drop(sel)

NextUpload ==
    \/ OnDropLong
    \/ CallReturns
    \/ Tick
    \/ handleClear

\* the application under selections around the limits of the upload zone
SpecUpload == Init /\ [][NextUpload]_vars

\* lines 82-86: App is unmounted and its cleanup clears every timer of the
\* map; nothing tells handleFilesSelected, whose loop goes on
Unmount ==
    /\ mounted
    /\ mounted' = FALSE
    /\ UNCHANGED <<files, isCompressing, outputFormat, progressIntervals, pc, i,
                   newFiles, fmt, urls, lastDownload, otherVars, libs, lastDrop>>

NextAbort == Next \/ Unmount

\* the application with the store of object URLs observed
SpecUrls == InitUrls /\ [][Next]_vars

\* the application with the unmount of App among its events
SpecAbort == Init /\ [][NextAbort]_vars

\* every call of compressSingleImage eventually returns or throws
FairSpec == Spec /\ WF_vars(CallReturns \/ CallThrows)

----------------------------------------------------------------------------
(* Downloads: handleDownload and handleDownloadAll                         *)

\* files.filter(f => f.status === 'done').length
doneFiles == Cardinality({k \in 1..Len(files) : files[k].status = "done"})

\* a file name as its parts between the dots
NameParts(name) ==
    CASE name = "a.png" -> <<"a", "png">>
      [] name = "a.jpg" -> <<"a", "jpg">>
      [] name = "c.jpg" -> <<"c", "jpg">>
      [] name = "d.webp" -> <<"d", "webp">>
      [] name = "e.png" -> <<"e", "png">>
      [] name = "upload.png" -> <<"upload", "png">>
      [] name = "upload.jpg" -> <<"upload", "jpg">>
      [] OTHER -> <<name>>

\* name.replace(/\.[^.]+$/, ''): a last part that follows a dot and is not
\* empty is removed with its dot
StripExtension(parts) ==
    IF Len(parts) >= 2 /\ parts[Len(parts)] # ""
    THEN SubSeq(parts, 1, Len(parts) - 1)
    ELSE parts

\* item.result.format === 'jpeg' ? 'jpg' : item.result.format
Ext(format) == IF format = "jpeg" THEN "jpg" ELSE format

\* `${originalName}.${ext}`, as parts
DownloadName(item) ==
    Append(StripExtension(NameParts(item.file.name)), Ext(item.result[1].format))

\* item.result?.success && item.result.data
Downloadable(item) ==
    /\ item.result # <<>>
    /\ item.result[1].success
    /\ item.result[1].data # <<>>

\* lines 147-155: the download of one item; the item's id stands for the
\* content of its data URL
FileDownload(item, list, via) ==
    <<[kind |-> "file", via |-> via, name |-> DownloadName(item),
       items |-> {item.id}, entries |-> {}, from |-> list]>>

\* JSZip.file(name, data): the entry of that name is set, one of the same
\* name is replaced
ZipFile(zip, name, item) ==
    {e \in zip : e.name # name} \cup {[name |-> name, item |-> item.id]}

\* lines 164-169: the loop over successItems
RECURSIVE ZipAll(_, _)
ZipAll(items, zip) ==
    IF items = <<>> THEN zip
    ELSE ZipAll(Tail(items), ZipFile(zip, DownloadName(Head(items)), Head(items)))

\* a download-all that packs every item that has a result
DownloadAll_everything(list, prev) ==
    LET successItems == SelectSeq(list, LAMBDA f : f.result # <<>>)
    IN  IF Len(successItems) = 1
        THEN FileDownload(successItems[1], list, "all")
        ELSE IF Len(successItems) > 1
        THEN LET zip == ZipAll(successItems, {})
             IN  <<[kind |-> "zip", via |-> "all",
                    name |-> <<"compressed_images", "zip">>,
                    items |-> {e.item : e \in zip}, entries |-> zip,
                    from |-> list]>>
        ELSE prev

\* lines 158-178: what download-all hands to the browser, prev when nothing
DownloadAll(list, prev) ==
    LET successItems == SelectSeq(list, Downloadable)
    IN  IF Len(successItems) = 1
        THEN FileDownload(successItems[1], list, "all")
        ELSE IF Len(successItems) > 1
        THEN LET zip == ZipAll(successItems, {})
             IN  <<[kind |-> "zip", via |-> "all",
                    name |-> <<"compressed_images", "zip">>,
                    items |-> {e.item : e \in zip}, entries |-> zip,
                    from |-> list]>>
        ELSE prev

downloadUnchanged ==
    UNCHANGED <<files, isCompressing, outputFormat, progressIntervals, pc, i,
                newFiles, fmt, mounted, lastDrop, libs, urls, compareVars,
                req, out>>

\* the download button of a finished item (lines 370-376)
handleDownload ==
    /\ mounted
    /\ \E k \in 1..Len(files) :
        /\ files[k].status = "done"
        /\ files[k].result # <<>> /\ files[k].result[1].success
        /\ lastDownload' = IF Downloadable(files[k])
                           THEN FileDownload(files[k], <<files[k]>>, "item")
                           ELSE lastDownload
    /\ downloadUnchanged

\* the download-all button, shown with a done item and disabled while
\* compressing (lines 303-308)
handleDownloadAll ==
    /\ mounted
    /\ doneFiles > 0
    /\ ~isCompressing
    /\ lastDownload' = DownloadAll(files, lastDownload)
    /\ downloadUnchanged

\* a drop of distinct files, some of which share a base name
OnDropNamed == \E sel \in NamedSelections : Drop(sel)

NextDownload ==
    \/ OnDropNamed
    \/ CallReturns
    \/ CallThrows
    \/ Tick
    \/ SetOutputFormat
    \/ handleClear
    \/ handleDownload
    \/ handleDownloadAll

\* the application with its download buttons
SpecDownload == Init /\ [][NextDownload]_vars

----------------------------------------------------------------------------
(* ImageCompare: the comparison slider                                     *)

\* the displayed widths, those for which the percentage is a whole number
Widths == {w \in 1..MaxWidth : 100 % w = 0}

\* the horizontal positions a pointer event can carry
ClientXs == 0..(MaxLeft + MaxWidth + 1)

\* lines 46-53: the pointer position clamped to the image, as a percentage
handleMove(clientX) ==
    LET minX == imageOffset.left
        maxX == imageOffset.left + imageSize.width
        clampedX == Max(minX, Min(maxX, clientX))
    IN  IF imageSize.width = 0 THEN NaN
        ELSE (100 * (clampedX - minX)) \div imageSize.width

\* lines 19-44: the image has loaded, its size and offset are set
ImageLoad ==
    /\ imageSize.width = 0
    /\ \E w \in Widths, l \in 0..MaxLeft :
        /\ imageSize' = [width |-> w]
        /\ imageOffset' = [left |-> l]
    /\ lastEvent' = "load"
    /\ UNCHANGED <<sliderPosition, isDragging, mouseHeld, appVars>>

\* lines 55-58; the loading view of line 91 has no handler
handleMouseDown ==
    /\ ~mouseHeld
    /\ mouseHeld' = TRUE
    /\ IF imageSize.width = 0
       THEN UNCHANGED <<sliderPosition, isDragging, lastEvent>>
       ELSE \E clientX \in ClientXs :
               /\ isDragging' = TRUE
               /\ sliderPosition' = handleMove(clientX)
               /\ lastEvent' = "mousedown"
    /\ UNCHANGED <<imageSize, imageOffset, appVars>>

\* lines 60-64
handleMouseMove ==
    /\ imageSize.width # 0
    /\ \E clientX \in ClientXs :
        sliderPosition' = IF isDragging THEN handleMove(clientX)
                          ELSE sliderPosition
    /\ lastEvent' = "mousemove"
    /\ UNCHANGED <<imageSize, imageOffset, isDragging, mouseHeld, appVars>>

\* lines 75-81: the listener on window
handleMouseUp ==
    /\ mouseHeld
    /\ mouseHeld' = FALSE
    /\ isDragging' = FALSE
    /\ lastEvent' = "mouseup"
    /\ UNCHANGED <<sliderPosition, imageSize, imageOffset, appVars>>

\* lines 66-69
handleTouchStart ==
    /\ imageSize.width # 0
    /\ \E clientX \in ClientXs :
        sliderPosition' = handleMove(clientX)
    /\ isDragging' = TRUE
    /\ lastEvent' = "touchstart"
    /\ UNCHANGED <<imageSize, imageOffset, mouseHeld, appVars>>

\* lines 71-73: a finger that is down moves
handleTouchMove ==
    /\ imageSize.width # 0
    /\ lastEvent \in {"touchstart", "touchmove"}
    /\ \E clientX \in ClientXs :
        sliderPosition' = handleMove(clientX)
    /\ lastEvent' = "touchmove"
    /\ UNCHANGED <<imageSize, imageOffset, isDragging, mouseHeld, appVars>>

NextCompare ==
    \/ ImageLoad
    \/ handleMouseDown
    \/ handleMouseMove
    \/ handleMouseUp
    \/ handleTouchStart
    \/ handleTouchMove

\* the comparison view from the moment it is opened
SpecCompare == Init /\ [][NextCompare]_vars

----------------------------------------------------------------------------
(* The summary figures App computes on every render                        *)

totalOriginal == SumSeq([k \in 1..Len(files) |-> files[k].file.bytes.size])

\* f.result?.compressed_size || 0
CompressedOf(f) == IF f.result = <<>> THEN 0 ELSE f.result[1].compressed_size

totalCompressed == SumSeq([k \in 1..Len(files) |-> CompressedOf(files[k])])

\* the summary ratio without its guard
totalRatio_unguarded ==
    JsDiv(100 * (totalOriginal - totalCompressed), totalOriginal)

\* (1 - totalCompressed / totalOriginal) * 100 behind its guard, as a fraction
totalRatio ==
    IF totalOriginal > 0
    THEN JsDiv(100 * (totalOriginal - totalCompressed), totalOriginal)
    ELSE <<0, 1>>

\* Number.prototype.toFixed(0): the sign and the digits of the rounded value
ToFixed0(x) ==
    [neg |-> x < 0, digits |-> IF x < 0 THEN 0 - x ELSE x]

\* a ratio text that shows no growth
RatioText_clamped(item) ==
    [prefix |-> "-",
     number |-> ToFixed0(Max(0, item.result[1].compression_ratio)),
     suffix |-> "%"]

\* the ratio text of a finished item: -{compression_ratio.toFixed(0)}%
RatioText(item) ==
    [prefix |-> "-", number |-> ToFixed0(item.result[1].compression_ratio),
     suffix |-> "%"]

----------------------------------------------------------------------------
(* compress as a function: every request, and the call on it               *)

\* the names an upload can carry: the extension is the uploader's choice
UploadNames == {"upload.png", "upload.jpg"}

Requests ==
    [name : UploadNames, bytes : Bytes, format : RequestFormats, env : Envs]

InitCompress ==
    /\ UIInit
    /\ urls = [observed |-> FALSE, live |-> 0]
    /\ libs = [quant |-> "ok", optimizer |-> "ok"]
    /\ req \in {<<r>> : r \in Requests}
    /\ out = <<>>

CompressCall ==
    /\ req # <<>>
    /\ out = <<>>
    /\ out' = <<CompressTrace(req[1].name, req[1].bytes, req[1].format,
                              req[1].env)>>
    /\ UNCHANGED <<uiVars, req>>

NextCompress == CompressCall

SpecCompress == InitCompress /\ [][NextCompress]_vars

----------------------------------------------------------------------------
(* Properties of the batch runner                                          *)

HasResult(f) == f.result # <<>>
ResultOf(f) == f.result[1]
Terminal(f) == f.status \in {"done", "error"}

\* the result names the file and carries the file's length
Belongs(r, file) ==
    r.filename = file.name /\ r.original_size = file.bytes.size

\* every outcome a batch of the single file can end with under format f
Alone(file, f) ==
    {compressSingleImage(file, f, libs)}
        \cup {CatchResult(file, error) : error \in Thrown}

\* C1: a batch of n requests yields n results, and the result at position k
\* is the result of the request at position k: while the batch runs, the
\* list is the list of requests and exactly the positions before the current
\* one hold their own result; when it has finished, every position does.
C1_OrderedResults ==
    /\ pc = "awaiting" =>
        /\ Len(files) = Len(newFiles)
        /\ \A k \in 1..Len(files) :
            /\ files[k].file = newFiles[k].file
            /\ k < i => HasResult(files[k]) /\ Belongs(ResultOf(files[k]), newFiles[k].file)
            /\ k >= i => ~HasResult(files[k])
    /\ pc = "idle" =>
        \A k \in 1..Len(files) :
            HasResult(files[k]) /\ Belongs(ResultOf(files[k]), files[k].file)

\* a finished batch with a failure followed by a success
C1_Witness ==
    /\ pc = "idle"
    /\ Len(files) >= 2
    /\ files[1].status = "error"
    /\ files[2].status = "done"
    /\ files[1].file # files[2].file

\* C2: the completion of request i, failed or not, changes no other item's
\* result and no finished item, is followed by the start of request i+1
\* when there is one, and leaves request i with an outcome it can have alone.
C2_Isolation ==
    [][(pc = "awaiting" /\ (i' # i \/ pc' = "idle")) =>
        /\ Len(files') = Len(files)
        /\ \A j \in 1..Len(files) :
            j # i => /\ files'[j].result = files[j].result
                     /\ Terminal(files[j]) => files'[j] = files[j]
        /\ HasResult(files'[i]) /\ ResultOf(files'[i]) \in Alone(files[i].file, fmt)
        /\ i < Len(files) =>
            pc' = "awaiting" /\ i' = i + 1 /\ files'[i + 1].status = "compressing"
        /\ i = Len(files) => pc' = "idle"]_vars

\* request 1 failed and request 2 was started all the same
C2_Witness ==
    /\ pc = "awaiting"
    /\ i = 2
    /\ files[1].status = "error"
    /\ files[2].status = "compressing"

AllTerminal == \A k \in 1..Len(files) : Terminal(files[k])

\* C4: a started batch finishes: the flag is reset, the loop has ended and
\* every item is done or error.
C4_BatchFinishes ==
    isCompressing ~> (~isCompressing /\ pc = "idle" /\ AllTerminal)

\* a batch in which a call threw has finished
C4_Witness ==
    /\ ~isCompressing
    /\ pc = "idle"
    /\ Len(files) > 0
    /\ AllTerminal
    /\ \E k \in 1..Len(files) : ResultOf(files[k]).error = "Failed to fetch"

----------------------------------------------------------------------------
(* Properties of compress                                                  *)

Called == req # <<>> /\ out # <<>>

\* the request's source decodes and encodes, and its target is one of fam
Encodable(r) == r.bytes.sig \in ConcreteFormats /\ r.bytes.body = "valid"
TargetIn(r, fam) ==
    r.format \in fam \/ (r.format = "original" /\ r.bytes.sig \in fam)

\* the bytes a successful result carries
KeptBytes(r) == r.data[2]

\* C5: with a palette raster target and the preferred quantizer missing or
\* raising, compress succeeds on the fallback quantizer's output and
\* reports no error.
C5_QuantizationFallback ==
    (Called /\ Encodable(req[1]) /\ TargetIn(req[1], PALETTE_RASTER)
            /\ req[1].env.quant # "ok") =>
        /\ out[1].result.success
        /\ out[1].result.error = ""
        /\ out[1].quantizer = "fallback"
        /\ KeptBytes(out[1].result) = EncodedBytes("fallback", req[1].bytes.fb)
        /\ out[1].result.compressed_size = req[1].bytes.fb

\* a PNG kept as PNG while the preferred quantizer raises
C5_Witness ==
    /\ Called
    /\ req[1].format = "original"
    /\ req[1].bytes.sig = "png"
    /\ req[1].env.quant = "raises"
    /\ out[1].result.success
    /\ out[1].quantizer = "fallback"

\* C6: where the optimizer step runs on an encoder output x, the bytes kept
\* are no longer than x, and they are x itself when the optimizer's output
\* is as long as x or longer.
C6_NeverWorse ==
    (Called /\ out[1].optimized) =>
        LET x == out[1].x[1]
            kept == KeptBytes(out[1].result)
        IN  /\ kept.size <= x.size
            /\ out[1].result.compressed_size <= x.size
            /\ (out[1].y # <<>> /\ out[1].y[1].size >= x.size) => kept = x

\* the optimizer ran and returned more bytes than it was given
C6_Witness ==
    /\ Called
    /\ out[1].optimized
    /\ out[1].y # <<>>
    /\ out[1].y[1].size > out[1].x[1].size
    /\ KeptBytes(out[1].result) = out[1].x[1]

\* C7: with a lossy photo target, an encodable source and the optimizer
\* missing or raising, compress succeeds with the encoder's output as it is.
C7_OptimizerNotFatal ==
    (Called /\ Encodable(req[1]) /\ TargetIn(req[1], LOSSY_PHOTO)
            /\ req[1].env.optimizer # "ok") =>
        /\ out[1].result.success
        /\ out[1].result.error = ""
        /\ KeptBytes(out[1].result) = EncodedBytes("encoder", req[1].bytes.enc)
        /\ out[1].result.compressed_size = req[1].bytes.enc

\* a WebP converted to JPEG while the optimizer raises
C7_Witness ==
    /\ Called
    /\ req[1].format = "jpeg"
    /\ req[1].bytes.sig = "webp"
    /\ req[1].env.optimizer = "raises"
    /\ out[1].result.success
    /\ out[1].y = <<>>

----------------------------------------------------------------------------
(* Properties of the figures shown                                         *)

\* the number a ratio text shows behind its prefix
ShownNumber(t) == IF t.number.neg THEN 0 - t.number.digits ELSE t.number.digits

\* C8: a successful result's ratio is 100 * (1 - compressed / original)
\* rounded; it is negative when the compressed size exceeds the original,
\* and the number in the item's ratio text is that ratio, sign included.
C8_RatioReported ==
    \A k \in 1..Len(files) :
        (files[k].status = "done" /\ HasResult(files[k])) =>
            LET r == ResultOf(files[k])
            IN  /\ r.original_size > 0
                /\ 2 * r.original_size * r.compression_ratio
                       <= 200 * (r.original_size - r.compressed_size) + r.original_size
                /\ 2 * r.original_size * (r.compression_ratio + 1)
                       > 200 * (r.original_size - r.compressed_size) + r.original_size
                /\ r.compressed_size > r.original_size => r.compression_ratio < 0
                /\ ShownNumber(RatioText(files[k])) = r.compression_ratio
                /\ r.compression_ratio < 0 => RatioText(files[k]).number.neg

\* an item is done with more bytes than it had
C8_Witness ==
    \E k \in 1..Len(files) :
        /\ files[k].status = "done"
        /\ ResultOf(files[k]).compressed_size > ResultOf(files[k]).original_size
        /\ ResultOf(files[k]).compression_ratio = -100

\* C9: no ratio is the quotient of a division by 0: the summary's ratio is
\* a number, is 0 when the list's original sizes sum to 0, and a result
\* whose original size is 0 has ratio 0.
C9_NoDivisionByZero ==
    /\ totalRatio # NaN
    /\ totalRatio[2] # 0
    /\ totalOriginal = 0 => totalRatio[1] = 0
    /\ \A k \in 1..Len(files) :
        (HasResult(files[k]) /\ ResultOf(files[k]).original_size = 0) =>
            ResultOf(files[k]).compression_ratio = 0

\* a list of empty files with a result
C9_Witness ==
    /\ Len(files) > 0
    /\ totalOriginal = 0
    /\ HasResult(files[1])
    /\ ResultOf(files[1]).original_size = 0

\* C10: a successful result's format is the source's detected format when
\* the batch was started with 'original', and the selected format otherwise.
C10_TargetResolution ==
    \A k \in 1..Len(files) :
        (HasResult(files[k]) /\ ResultOf(files[k]).success) =>
            /\ (pc = "awaiting" => fmt = outputFormat)
            /\ ResultOf(files[k]).format =
                 IF fmt = "original" THEN files[k].file.bytes.sig ELSE fmt

\* a PNG turned into WebP next to a JPEG turned into WebP
C10_Witness ==
    /\ Len(files) >= 2
    /\ fmt = "webp"
    /\ files[1].file.bytes.sig = "png"
    /\ files[2].file.bytes.sig = "jpeg"
    /\ HasResult(files[1]) /\ ResultOf(files[1]).format = "webp"
    /\ HasResult(files[2]) /\ ResultOf(files[2]).format = "webp"

----------------------------------------------------------------------------
(* Properties of the encoder pipeline                                      *)

\* the values of OutputFormat
OutputFormats == {"original"} \cup ConcreteFormats

\* C11: a request that reaches an encoder goes through a quantizer exactly
\* when its resolved target is a palette raster, a source that is a palette
\* raster already included; the optimizer step runs only for a lossy photo
\* target; a modern target has neither. A request that fails has neither.
C11_PipelinePerTarget ==
    Called =>
        /\ out[1].result.success =>
            /\ out[1].target = out[1].result.format
            /\ (out[1].quantizer # "none") <=> (out[1].target \in PALETTE_RASTER)
            /\ out[1].optimized <=> (out[1].target \in LOSSY_PHOTO)
            /\ out[1].target \in MODERN =>
                 /\ out[1].quantizer = "none" /\ ~out[1].optimized
                 /\ out[1].y = <<>>
                 /\ KeptBytes(out[1].result).src = "encoder"
            /\ out[1].target \in PALETTE_RASTER =>
                 KeptBytes(out[1].result).src \in {"quantizer", "fallback"}
        /\ ~out[1].result.success =>
            out[1].quantizer = "none" /\ ~out[1].optimized

\* a PNG kept as PNG went through the quantizer
C11_Witness ==
    /\ Called
    /\ req[1].bytes.sig = "png"
    /\ req[1].format = "original"
    /\ out[1].result.success
    /\ out[1].quantizer = "primary"
    /\ ~out[1].optimized

\* C16: a source that carries an accepted signature and is whole succeeds
\* under every value of OutputFormat; one with an alpha channel whose
\* target is a lossy photo is flattened and succeeds.
C16_ValidAlwaysSucceeds ==
    (Called /\ Encodable(req[1]) /\ req[1].format \in OutputFormats) =>
        /\ out[1].result.success
        /\ out[1].result.error = ""
        /\ out[1].result.compressed_size > 0
        /\ (req[1].bytes.alpha /\ TargetIn(req[1], LOSSY_PHOTO)) => out[1].flattened

\* a PNG with an alpha channel turned into a JPEG
C16_Witness ==
    /\ Called
    /\ req[1].bytes.sig = "png"
    /\ req[1].bytes.alpha
    /\ req[1].format = "jpeg"
    /\ out[1].result.success
    /\ out[1].flattened
    /\ out[1].result.format = "jpeg"

\* C17: what compress detects and whether it succeeds is settled by the
\* bytes and the requested format, whatever the upload is called: bytes
\* without an accepted signature fail with a decode error, a success is a
\* whole source with an encodable target, and the format kept under
\* 'original' is the one the bytes carry.
C17_ContentBasedDetection ==
    Called =>
        /\ req[1].bytes.sig = "none" =>
            ~out[1].result.success /\ out[1].result.error = "DecodeError"
        /\ out[1].result.success <=>
            (Encodable(req[1]) /\ req[1].format \in OutputFormats)
        /\ (out[1].result.success /\ req[1].format = "original") =>
            out[1].result.format = req[1].bytes.sig
        /\ out[1].result.filename = req[1].name

\* PNG bytes uploaded under a .jpg name are kept as PNG
C17_Witness ==
    /\ Called
    /\ req[1].name = "upload.jpg"
    /\ req[1].bytes.sig = "png"
    /\ req[1].format = "original"
    /\ out[1].result.success
    /\ out[1].result.format = "png"


----------------------------------------------------------------------------
(* Properties of the batch as the user sees it                             *)

\* the result came back from the API, not from the catch block
Returned(f) ==
    HasResult(f) /\ ResultOf(f) \notin {CatchResult(f.file, e) : e \in Thrown}

Compressing == {k \in 1..Len(files) : files[k].status = "compressing"}
Finished == {k \in 1..Len(files) : Terminal(files[k])}

C13_Sequential ==
    /\ Cardinality(Compressing) <= 1
    /\ pc = "awaiting" =>
        /\ Compressing = {i}
        /\ \A k \in 1..Len(files) :
            /\ k < i => Terminal(files[k])
            /\ k > i => files[k].status = "pending"
    /\ pc = "idle" => Compressing = {}

\* the second item of a batch is in flight, the first has finished
C13_Witness ==
    /\ pc = "awaiting"
    /\ i = 2
    /\ Len(files) = 2
    /\ Terminal(files[1])
    /\ files[2].status = "compressing"

\* C14: the results reach the list one at a time and in index order: each
\* completion adds exactly item i, with its result, to the finished items,
\* which were the items before i; when item i+1 is started item i already
\* shows its result, and the last completion finds every other item finished.
C14_Incremental ==
    [][(pc = "awaiting" /\ (i' # i \/ pc' = "idle")) =>
        /\ Finished = 1..(i - 1)
        /\ Finished' = 1..i
        /\ HasResult(files'[i])
        /\ files'[i].progress = 100
        /\ pc' = "awaiting" =>
            /\ files'[i + 1].status = "compressing"
            /\ \A k \in (i + 1)..Len(files') : ~HasResult(files'[k])]_vars

\* the first result is on display while the second item is being compressed
C14_Witness ==
    /\ pc = "awaiting"
    /\ i = 2
    /\ HasResult(files[1])
    /\ files[1].progress = 100
    /\ ~HasResult(files[2])
    /\ files[2].status = "compressing"

C18_NothingStartedAfterAbort ==
    [][~mounted => ~(pc' = "awaiting" /\ i' > i)]_vars

\* C20: a file of each of PNG, JPEG, WebP and AVIF dropped on the upload
\* zone reaches the batch, and its format can be chosen as the output format.
C20_FourFormats ==
    \A f \in DocumentedFormats :
        (lastDrop.n = 1 /\ lastDrop.types = {MimeType(f)}) =>
            /\ lastDrop.taken = 1
            /\ f \in FORMAT_OPTIONS


----------------------------------------------------------------------------
(* Properties of the comparison slider                                     *)

\* C29: the slider starts at 50 and stays within [0, 100]; a mouse move
\* changes it only while a mouse button is held, between a mouse-down and
\* the mouse-up that follows; nothing is computed while the image width is 0.
C29_Slider ==
    /\ [](sliderPosition \in 0..100)
    /\ [](lastEvent = "none" => sliderPosition = 50)
    /\ [](imageSize.width = 0 => sliderPosition = 50 /\ ~isDragging)
    /\ [][(lastEvent' = "mousemove" /\ sliderPosition' # sliderPosition)
            => mouseHeld]_vars


----------------------------------------------------------------------------
(* Properties of the object URLs                                           *)

\* C26: the object URLs still live are exactly those of the items listed:
\* every listed item's URL is live from its creation to its revocation, so
\* the two sets are the same exactly when they have the same number of
\* elements, after a clear as after the start of a new batch.
C26_UrlsReleased ==
    urls.observed => urls.live = Len(files)


----------------------------------------------------------------------------
(* Properties of the summary card                                          *)

\* the successfully compressed items of the list
Succeeded == SelectSeq(files, LAMBDA f : HasResult(f) /\ ResultOf(f).success)

succeededOriginal ==
    SumSeq([k \in 1..Len(Succeeded) |-> Succeeded[k].file.bytes.size])

succeededCompressed ==
    SumSeq([k \in 1..Len(Succeeded) |-> ResultOf(Succeeded[k]).compressed_size])

\* two fractions <<n, d>> with d > 0 that are the same number
SameNumber(p, q) == p[1] * q[2] = q[1] * p[2]

\* C27: whenever the summary shows a ratio (an item is done), the compressed
\* total is the sum over the successfully compressed items and the ratio is
\* 100 * (1 - compressed / original) over these same items, so that a failed
\* or unfinished item is not counted as space saved.
C27_SummaryTotals ==
    (doneFiles > 0 /\ succeededOriginal > 0) =>
        /\ totalCompressed = succeededCompressed
        /\ SameNumber(totalRatio,
                      JsDiv(100 * (succeededOriginal - succeededCompressed),
                            succeededOriginal))


----------------------------------------------------------------------------
(* Properties of the items and of their timers                             *)

ItemIds == {files[k].id : k \in 1..Len(files)}

\* C22: a compressing item has progress within [0, 90], a pending item has
\* progress 0, an item has progress 100 exactly when it is done or error;
\* the callback of any item's timer leaves every finished item as it is;
\* and while an item stays compressing its progress never decreases.
C22_SimulatedProgress ==
    /\ [](\A k \in 1..Len(files) :
            /\ files[k].status = "compressing" => files[k].progress \in 0..90
            /\ files[k].status = "pending" => files[k].progress = 0
            /\ files[k].progress = 100 <=> Terminal(files[k])
            /\ Terminal(files[k]) =>
                \A id \in ItemIds : ProgressStep(files, id)[k] = files[k])
    /\ [][pc = "awaiting" =>
            \A k \in 1..Len(files) :
                (files[k].status = "compressing"
                    /\ files'[k].status = "compressing") =>
                        files'[k].progress >= files[k].progress]_vars

\* the timer has driven the second item to 90 beside a finished first item
C22_Witness ==
    /\ pc = "awaiting"
    /\ i = 2
    /\ files[1].progress = 100
    /\ files[2].status = "compressing"
    /\ files[2].progress = 90

Allowed(from, to) ==
    CASE from = "pending" -> to \in {"pending", "compressing"}
      [] from = "compressing" -> to \in {"compressing", "done", "error"}
      [] OTHER -> to = from

Fresh(f) == f.status \in {"pending", "compressing"} /\ ~HasResult(f)

\* C23: an item is done exactly when it holds a result with success = true
\* and error exactly when it holds a result with success = false, which is
\* also what the catch block builds; a pending or compressing item holds no
\* result; while a batch runs every item moves pending -> compressing ->
\* done | error and a finished item is never changed; a finished item leaves
\* its state only when the list is cleared or replaced by new items.
C23_Lifecycle ==
    /\ [](\A k \in 1..Len(files) :
            /\ files[k].status = "done" <=>
                (HasResult(files[k]) /\ ResultOf(files[k]).success)
            /\ files[k].status = "error" <=>
                (HasResult(files[k]) /\ ~ResultOf(files[k]).success)
            /\ files[k].status \in {"pending", "compressing", "done", "error"})
    /\ [][/\ pc = "awaiting" =>
                /\ Len(files') = Len(files)
                /\ \A k \in 1..Len(files) :
                    /\ Allowed(files[k].status, files'[k].status)
                    /\ Terminal(files[k]) => files'[k] = files[k]
          /\ (pc = "idle" /\ files' # files) =>
                \A k \in 1..Len(files') : Fresh(files'[k])]_vars

\* a finished batch: the first call returned a success, the second threw
C23_Witness ==
    /\ pc = "idle"
    /\ Len(files) = 2
    /\ files[1].status = "done"
    /\ files[2].status = "error"
    /\ ~Returned(files[2])

\* C25: while a call is awaited the map holds the timer of the item being
\* compressed and no other, so the timer of every item that completed, by a
\* result or by an exception, has been stopped; when no batch runs, after
\* its end as after handleClear, the map is empty.
C25_TimerHygiene ==
    /\ pc = "awaiting" =>
        /\ files[i].id = newFiles[i].id
        /\ progressIntervals = {files[i].id}
    /\ pc = "idle" => progressIntervals = {}

\* the first call threw, its timer is gone and the second item's timer runs
C25_Witness ==
    /\ pc = "awaiting"
    /\ i = 2
    /\ HasResult(files[1]) /\ ~Returned(files[1])
    /\ files[1].id \notin progressIntervals
    /\ files[2].id \in progressIntervals


----------------------------------------------------------------------------
(* Properties of the downloads and of the running batch                    *)

Successful(f) == HasResult(f) /\ ResultOf(f).success

\* C21: download-all with one successful item in the list starts the
\* download of that item's file, with more than one it starts the download
\* of one ZIP archive, with none it starts nothing; what it starts never
\* holds an item that failed.
C21_DownloadAll ==
    /\ (\A k \in 1..Len(files) : ~Successful(files[k])) =>
            DownloadAll(files, lastDownload) = lastDownload
    /\ (lastDownload # <<>> /\ lastDownload[1].via = "all") =>
        LET d == lastDownload[1]
            s == SelectSeq(d.from, Successful)
        IN  /\ Len(s) >= 1
            /\ Len(s) = 1 =>
                /\ d.kind = "file"
                /\ d.items = {s[1].id}
                /\ d.name = DownloadName(s[1])
            /\ Len(s) > 1 => d.kind = "zip" /\ d.entries # {}
            /\ \A k \in 1..Len(d.from) :
                ~Successful(d.from[k]) => d.from[k].id \notin d.items

\* a ZIP archive was started from a list that holds a failed item
C21_Witness ==
    /\ lastDownload # <<>>
    /\ lastDownload[1].via = "all"
    /\ lastDownload[1].kind = "zip"
    /\ \E k \in 1..Len(lastDownload[1].from) :
        lastDownload[1].from[k].status = "error"

\* C24: while a batch runs the list keeps its items, which are those of
\* the batch at the same indices, and only the item of the loop index and
\* the one after it change; the output format keeps the value the batch
\* started with, no other batch starts, and download-all starts nothing.
C24_OneBatch ==
    [][isCompressing =>
        /\ pc = "awaiting"
        /\ fmt = outputFormat /\ outputFormat' = outputFormat
        /\ newFiles' \in {newFiles, <<>>}
        /\ Len(files) = Len(newFiles)
        /\ Len(files') = Len(files)
        /\ \A k \in 1..Len(files) :
            /\ files[k].id = newFiles[k].id
            /\ files'[k].id = files[k].id
            /\ files'[k].file = files[k].file
            /\ k \notin {i, i + 1} => files'[k] = files[k]
        /\ lastDownload' # lastDownload => lastDownload'[1].via = "item"]_vars

\* a batch of three is at its second item and the first item's file was
\* downloaded meanwhile
C24_Witness ==
    /\ isCompressing
    /\ i = 2
    /\ Len(files) = 3
    /\ lastDownload # <<>>
    /\ lastDownload[1].via = "item"

\* C28: a ZIP archive of k > 1 successful items holds exactly k entries,
\* one for each of them under its own name, the base name of the file with
\* the extension of the result format.
C28_ZipComplete ==
    (lastDownload # <<>> /\ lastDownload[1].kind = "zip") =>
        LET d == lastDownload[1]
            s == SelectSeq(d.from, Successful)
        IN  /\ Cardinality(d.entries) = Len(s)
            /\ \A k \in 1..Len(s) :
                [name |-> DownloadName(s[k]), item |-> s[k].id] \in d.entries

====
